---- MODULE Spec2Model ----
(***************************************************************************)
(* Model of steam-randomiser (src/main.py): a single-threaded command-line *)
(* tool that resolves a Steam identifier, fetches the owned games, picks   *)
(* one at random and optionally picks a random achievement of that game.   *)
(* Strings are sequences of one-character strings so that the regular      *)
(* expressions of parse_id_input can be computed position by position.     *)
(* The Steam Web API is the environment: every reply is a nondeterministic *)
(* choice from a bounded set.  Percentages are whole numbers; the float    *)
(* product percent * (100.0 / first) >= cutoff is computed exactly, by     *)
(* cross-multiplication.                                                   *)
(***************************************************************************)
EXTENDS Integers, Sequences, FiniteSets, TLC

VARIABLES entry, pc, user_id, all_games, time_played, achievement, cutoff,
          appid, steam_id, owned_games, selectable_games, game,
          achievements, schema_achievements, candidates, chosen, result,
          calls, out, err

vars == <<entry, pc, user_id, all_games, time_played, achievement, cutoff,
          appid, steam_id, owned_games, selectable_games, game,
          achievements, schema_achievements, candidates, chosen, result,
          calls, out, err>>

---------------------------------------------------------------------------
(* Bounds of the enumerated API replies. *)
MaxGames == 2
MaxStats == 2
MaxSchema == 2

(* Program constants. *)
IdLen == 17
HttpOk == 200
VanitySuccess == 1
DefaultCutoff == 80
DefaultTimePlayed == 0

Range(s) == {s[i] : i \in DOMAIN s}
SeqsUpTo(S, n) == UNION {[1..k -> S] : k \in 0..n}

---------------------------------------------------------------------------
(* Characters and strings. *)
Digits == {"0", "1", "2", "3", "4", "5", "6", "7", "8", "9"}
NL == "\n"
S_profiles == <<"p", "r", "o", "f", "i", "l", "e", "s", "/">>
S_id == <<"i", "d", "/">>
Rep(c, n) == [i \in 1..n |-> c]

\* Does the literal lit occur in s starting at position i ?
LitAt(s, i, lit) ==
    /\ i >= 1
    /\ i + Len(lit) - 1 <= Len(s)
    /\ \A k \in 1..Len(lit) : s[i + k - 1] = lit[k]

\* seventeen ASCII digits starting at position i
DigitsAt(s, i) ==
    /\ i >= 1
    /\ i + IdLen - 1 <= Len(s)
    /\ \A k \in 0..(IdLen - 1) : s[i + k] \in Digits

\* Python's end anchor (no MULTILINE): it matches after the e-th character
\* when that is the end of the string, or just before a newline that ends
\* the string.
DollarAt(s, e) ==
    \/ e = Len(s)
    \/ e = Len(s) - 1 /\ s[Len(s)] = NL

\* re.match of the canonical 17-digit form, anchored at both ends
MatchCanonicalOffByOne(s) == DigitsAt(s, 1) /\ DollarAt(s, IdLen + 1)

MatchCanonical(s) == DigitsAt(s, 1) /\ DollarAt(s, IdLen)

\* re.search of "profiles/" + 17 digits + end anchor: start positions
ProfilesMatches(s) ==
    {i \in 1..Len(s) : /\ LitAt(s, i, S_profiles)
                       /\ DigitsAt(s, i + Len(S_profiles))
                       /\ DollarAt(s, i + Len(S_profiles) + IdLen - 1)}

Leftmost(P) == CHOOSE i \in P : \A j \in P : i <= j

ProfilesGroup(s) ==
    LET i == Leftmost(ProfilesMatches(s))
    IN  SubSeq(s, i + Len(S_profiles), i + Len(S_profiles) + IdLen - 1)

\* The greedy any-character run stops at a newline: the longest run of
\* non-newline characters starting at position i ends at DotStarEnd(s, i).
RECURSIVE DotStarEnd(_, _)
DotStarEnd(s, i) ==
    IF i > Len(s) \/ s[i] = NL THEN i - 1 ELSE DotStarEnd(s, i + 1)

\* re.search of "id/" + greedy any-character group + end anchor: start
\* positions of a match.  Giving characters back never helps the anchor,
\* which needs the end of the string or a final newline.
VanityMatches(s) ==
    {i \in 1..Len(s) : /\ LitAt(s, i, S_id)
                       /\ DollarAt(s, DotStarEnd(s, i + Len(S_id)))}

VanityGroupLast(s) ==
    LET P == VanityMatches(s)
        i == CHOOSE p \in P : \A j \in P : p >= j
    IN  SubSeq(s, i + Len(S_id), DotStarEnd(s, i + Len(S_id)))

VanityGroup(s) ==
    LET i == Leftmost(VanityMatches(s))
    IN  SubSeq(s, i + Len(S_id), DotStarEnd(s, i + Len(S_id)))

---------------------------------------------------------------------------
(* parse_id_input: what the resolver decides before any API call.          *)
(*   kind = "id"     : return val                                          *)
(*   kind = "vanity" : return get_id_from_vanity(api_key, val)             *)
parse_id_input_VanityFirst(s) ==
    IF MatchCanonical(s) THEN [kind |-> "id", val |-> s]
    ELSE IF VanityMatches(s) # {} THEN [kind |-> "vanity", val |-> VanityGroup(s)]
    ELSE IF ProfilesMatches(s) # {} THEN [kind |-> "id", val |-> ProfilesGroup(s)]
    ELSE [kind |-> "vanity", val |-> s]

parse_id_input(s) ==
    IF MatchCanonical(s) THEN [kind |-> "id", val |-> s]
    ELSE IF ProfilesMatches(s) # {} THEN [kind |-> "id", val |-> ProfilesGroup(s)]
    ELSE IF VanityMatches(s) # {} THEN [kind |-> "vanity", val |-> VanityGroup(s)]
    ELSE [kind |-> "vanity", val |-> s]

(* steam_api_call_json: the status test that raises ValueError *)
RequestFailsNever(status) == status = 0

RequestFails(status) == status # HttpOk

(* get_id_from_vanity: the success test that raises ValueError *)
LookupFails(success) == success # VanitySuccess

---------------------------------------------------------------------------
(* Inputs. *)
D17 == Rep("7", IdLen)
D17b == [i \in 1..IdLen |-> IF i % 2 = 0 THEN "0" ELSE "4"]
D16 == Rep("7", IdLen - 1)
D18 == Rep("7", IdLen + 1)
ResolvedId == Rep("9", IdLen)

Prefixes == { <<>>, <<"h", "/">>, S_id, S_id \o <<"b", "/">>,
              S_id \o <<"a", NL>> }
Bodies == { <<>>, <<"b">>, S_id \o <<"b">>, D17, D17b, D16, D18,
            S_profiles \o D17b, S_profiles \o D16, S_profiles \o D18 }
Suffixes == { <<>>, <<NL>>, <<"/">> }

(* what parse_id_input is applied to when it is called on its own *)
IdInputs == {p \o b \o x : p \in Prefixes, b \in Bodies, x \in Suffixes}

(* the command lines of whole runs: one of each accepted shape *)
MainIds == { D17b, <<"h", "/">> \o S_profiles \o D17b, S_id \o <<"b">>,
             <<"b">> }
TimePlayedVals == {0, 1}
CutoffVals == {50, DefaultCutoff, 101}
AppIds == {1, 2, 3}
Statuses == {HttpOk, 500}

Games == { [appid |-> 1, name |-> <<"G", "1">>, playtime_forever |-> 0],
           [appid |-> 2, name |-> <<"G", "2">>, playtime_forever |-> 1],
           [appid |-> 3, name |-> <<"G", "3">>, playtime_forever |-> 2] }
NoGame == [appid |-> 0, name |-> <<>>, playtime_forever |-> 0]

VanityReplies == [status : Statuses, success : {VanitySuccess, 42},
                  steamid : {ResolvedId}]
GamesReplies == [status : Statuses, games : SeqsUpTo(Games, MaxGames)]

(* a line of standard output, and an entry of the log of API calls *)
Line(kind, text, num) == [line |-> kind, text |-> text, num |-> num]
Call(ep, arg, num, status, success, steamid, count) ==
    [endpoint |-> ep, arg |-> arg, num |-> num, status |-> status,
     success |-> success, steamid |-> steamid, count |-> count]

(* return values: None, a string, or nothing returned yet *)
NotReturned == [kind |-> "unset", val |-> <<>>]
None == [kind |-> "None", val |-> <<>>]
Str(s) == [kind |-> "str", val |-> s]

---------------------------------------------------------------------------
InitLocals ==
    /\ steam_id = <<>>
    /\ owned_games = <<>>
    /\ selectable_games = <<>>
    /\ game = NoGame
    /\ achievements = <<>>
    /\ schema_achievements = <<>>
    /\ candidates = <<>>
    /\ chosen = <<>>
    /\ result = NotReturned
    /\ calls = <<>>
    /\ out = <<>>
    /\ err = "none"

(* The program is entered through main (the command line), or one of its   *)
(* functions is called on its own with its arguments.                      *)
Init ==
    /\ InitLocals
    /\ \/ /\ entry = "main"
          /\ pc = "main"
          /\ user_id \in MainIds
          /\ all_games \in BOOLEAN
          /\ time_played \in TimePlayedVals
          /\ achievement \in BOOLEAN
          /\ cutoff = DefaultCutoff
          /\ appid = 0
       \/ /\ entry = "parse_id_input"
          /\ pc = "parse_id"
          /\ user_id \in IdInputs
          /\ all_games = FALSE
          /\ time_played = DefaultTimePlayed
          /\ achievement = FALSE
          /\ cutoff = DefaultCutoff
          /\ appid = 0
       \/ /\ entry = "get_random_achievement"
          /\ pc = "stats"
          /\ user_id = <<>>
          /\ all_games = FALSE
          /\ time_played = DefaultTimePlayed
          /\ achievement = TRUE
          /\ cutoff \in CutoffVals
          /\ appid \in AppIds

Raise(e) == err' = e /\ pc' = "crashed"

(* main, lines 101-114: parse the arguments, read the key file *)
MainReadKey ==
    /\ pc = "main"
    /\ \E readable \in BOOLEAN :
         IF readable THEN pc' = "parse_id" /\ err' = err
         ELSE Raise("OSError")
    /\ UNCHANGED <<entry, user_id, all_games, time_played, achievement,
                   cutoff, appid, steam_id, owned_games, selectable_games,
                   game, achievements, schema_achievements, candidates,
                   chosen, result, calls, out>>

(* parse_id_input with its call of get_id_from_vanity *)
ParseIdInput ==
    /\ pc = "parse_id"
    /\ LET r == parse_id_input(user_id)
           Returned(id) ==
               /\ steam_id' = id
               /\ err' = err
               /\ IF entry = "parse_id_input"
                  THEN pc' = "done" /\ result' = Str(id)
                  ELSE pc' = "owned_games" /\ result' = result
       IN  IF r.kind = "id"
           THEN Returned(r.val) /\ calls' = calls
           ELSE \E reply \in VanityReplies :
                  /\ calls' = Append(calls,
                        Call("ResolveVanityURL", r.val, 0, reply.status,
                             reply.success, reply.steamid, 0))
                  /\ IF RequestFails(reply.status) \/ LookupFails(reply.success)
                     THEN Raise("ValueError") /\ UNCHANGED <<steam_id, result>>
                     ELSE Returned(reply.steamid)
    /\ UNCHANGED <<entry, user_id, all_games, time_played, achievement,
                   cutoff, appid, owned_games, selectable_games, game,
                   achievements, schema_achievements, candidates, chosen,
                   out>>

(* pick_random_game, line 55: the games that may be picked *)
SelectableGames_NoFilter(owned, all, played) == owned

SelectableGames(owned, all, played) ==
    IF all THEN owned
    ELSE SelectSeq(owned, LAMBDA g : g.playtime_forever <= played)

(* random.choice raises IndexError on an empty sequence *)
ChoiceRaises(seq) == Len(seq) = 0

(* pick_random_game after the identifier is resolved: get_owned_games,     *)
(* the filter and random.choice                                            *)
PickRandomGame ==
    /\ pc = "owned_games"
    /\ \E reply \in GamesReplies :
         /\ calls' = Append(calls,
               Call("GetOwnedGames", steam_id, 0, reply.status, 0, <<>>,
                    Len(reply.games)))
         /\ IF RequestFails(reply.status)
            THEN /\ Raise("ValueError")
                 /\ UNCHANGED <<owned_games, selectable_games, game>>
            ELSE LET sel == SelectableGames(reply.games, all_games, time_played)
                 IN  /\ owned_games' = reply.games
                     /\ selectable_games' = sel
                     /\ IF ChoiceRaises(sel)
                        THEN Raise("IndexError") /\ game' = game
                        ELSE /\ \E g \in Range(sel) : game' = g
                             /\ pc' = "print_game"
                             /\ err' = err
    /\ UNCHANGED <<entry, user_id, all_games, time_played, achievement,
                   cutoff, appid, steam_id, achievements,
                   schema_achievements, candidates, chosen, result, out>>

(* main, lines 117-121: pick_random_game has returned (its locals are      *)
(* gone), the game is printed, and achievement mode goes on                *)
MainPrintGame ==
    /\ pc = "print_game"
    /\ out' = out \o << Line("App ID", <<>>, game.appid),
                        Line("name", game.name, 0) >>
    /\ steam_id' = <<>>
    /\ owned_games' = <<>>
    /\ selectable_games' = <<>>
    /\ IF achievement
       THEN pc' = "stats" /\ appid' = game.appid
       ELSE pc' = "done" /\ appid' = appid
    /\ UNCHANGED <<entry, user_id, all_games, time_played, achievement,
                   cutoff, game, achievements, schema_achievements,
                   candidates, chosen, result, calls, err>>

---------------------------------------------------------------------------
(* Achievements.  A schema entry carries no percent until the enrichment   *)
(* sets it: Unset stands for the missing dictionary key.                   *)
Unset == -1
NonAscii == {"U+00E9"}
Stats == { [name |-> "A", percent |-> 50], [name |-> "A", percent |-> 40],
           [name |-> "B", percent |-> 10], [name |-> "B", percent |-> 0] }
SchemaEntries ==
    { [name |-> "A", displayName |-> <<"A">>, percent |-> Unset],
      [name |-> "B", displayName |-> <<"B", "U+00E9">>, percent |-> Unset],
      [name |-> "C", displayName |-> <<"C">>, percent |-> Unset] }
StatsReplies == [status : Statuses, achievements : SeqsUpTo(Stats, MaxStats)]
SchemaReplies == [status : Statuses, schema : SeqsUpTo(SchemaEntries, MaxSchema)]

(* line 80: modifier = 100.0 / achievements[0]["percent"] *)
ModifierRaises(stats) == stats[1].percent = 0

(* line 81: percent * modifier >= cutoff, with modifier = 100 / first      *)
(* and first > 0, multiplied out                                           *)
IsCandidate_Raw(stat, first, cut) == stat.percent >= cut

IsCandidate(stat, first, cut) == stat.percent * 100 >= cut * first.percent

Candidates(stats, cut) ==
    SelectSeq(stats, LAMBDA st : IsCandidate(st, stats[1], cut))

(* lines 83-86: the inner loop over the stats from position i on, for one  *)
(* schema entry; it stops at the first stat of the same name               *)
RECURSIVE EnrichItem_NoBreak(_, _, _)
EnrichItem_NoBreak(item, stats, i) ==
    IF i > Len(stats) THEN item
    ELSE IF item.name = stats[i].name
         THEN EnrichItem_NoBreak([item EXCEPT !.percent = stats[i].percent],
                                 stats, i + 1)
         ELSE EnrichItem_NoBreak(item, stats, i + 1)

RECURSIVE EnrichItem(_, _, _)
EnrichItem(item, stats, i) ==
    IF i > Len(stats) THEN item
    ELSE IF item.name = stats[i].name
         THEN [item EXCEPT !.percent = stats[i].percent]
         ELSE EnrichItem(item, stats, i + 1)

(* lines 82-86 *)
EnrichSchema(schema, stats) ==
    [k \in DOMAIN schema |-> EnrichItem(schema[k], stats, 1)]

(* line 88: sorted() is a stable ascending sort; x goes after every        *)
(* element whose key is not larger                                         *)
RECURSIVE Insert(_, _)
Insert(sorted, x) ==
    IF sorted = <<>> THEN <<x>>
    ELSE IF Head(sorted).percent <= x.percent
         THEN <<Head(sorted)>> \o Insert(Tail(sorted), x)
         ELSE <<x>> \o sorted

RECURSIVE Sorted(_)
Sorted(seq) ==
    IF seq = <<>> THEN <<>>
    ELSE Insert(Sorted(SubSeq(seq, 1, Len(seq) - 1)), seq[Len(seq)])

Reversed(seq) == [i \in DOMAIN seq |-> seq[Len(seq) + 1 - i]]

(* the key function of the sort raises KeyError on an entry with no percent *)
SortRaises(schema) == \E k \in DOMAIN schema : schema[k].percent = Unset

(* line 90: encode("ascii", errors='replace').decode("ascii") *)
AsciiReplace(text) ==
    [i \in DOMAIN text |-> IF text[i] \in NonAscii THEN "?" ELSE text[i]]

ListingLines(schema) ==
    LET sorted_by_unlocked == Reversed(Sorted(schema))
    IN  [i \in DOMAIN sorted_by_unlocked |->
            Line("listing", AsciiReplace(sorted_by_unlocked[i].displayName),
                 sorted_by_unlocked[i].percent)]

(* lines 93-96: the loop has no break, the last entry of that name wins *)
FoundDisplayName(schema, name) ==
    LET M == {k \in DOMAIN schema : schema[k].name = name}
    IN  IF M = {} THEN <<>>
        ELSE schema[CHOOSE k \in M : \A j \in M : j <= k].displayName

(* get_random_achievement returns, to main or to its caller *)
ReturnAchievement(value) ==
    /\ result' = value
    /\ pc' = IF entry = "main" THEN "print_challenge" ELSE "done"

AchUnchanged ==
    UNCHANGED <<entry, user_id, all_games, time_played, achievement, cutoff,
                appid, steam_id, owned_games, selectable_games, game>>

(* lines 73-76: the percentages, and the early return on an empty list *)
GetAchievementStats_NoEarlyReturn ==
    /\ pc = "stats"
    /\ \E reply \in StatsReplies :
         /\ calls' = Append(calls,
               Call("GetGlobalAchievementPercentagesForApp", <<>>, appid,
                    reply.status, 0, <<>>, Len(reply.achievements)))
         /\ IF RequestFails(reply.status)
            THEN Raise("ValueError") /\ UNCHANGED <<achievements, result, out>>
            ELSE /\ achievements' = reply.achievements
                 /\ err' = err
                 /\ pc' = "schema" /\ UNCHANGED <<result, out>>
    /\ UNCHANGED <<schema_achievements, candidates, chosen>>
    /\ AchUnchanged

GetAchievementStats ==
    /\ pc = "stats"
    /\ \E reply \in StatsReplies :
         /\ calls' = Append(calls,
               Call("GetGlobalAchievementPercentagesForApp", <<>>, appid,
                    reply.status, 0, <<>>, Len(reply.achievements)))
         /\ IF RequestFails(reply.status)
            THEN Raise("ValueError") /\ UNCHANGED <<achievements, result, out>>
            ELSE /\ achievements' = reply.achievements
                 /\ err' = err
                 /\ IF Len(reply.achievements) = 0
                    THEN /\ out' = Append(out, Line("no achievements", <<>>, 0))
                         /\ ReturnAchievement(None)
                    ELSE pc' = "schema" /\ UNCHANGED <<result, out>>
    /\ UNCHANGED <<schema_achievements, candidates, chosen>>
    /\ AchUnchanged

(* lines 78-79: the schema *)
GetSchema ==
    /\ pc = "schema"
    /\ \E reply \in SchemaReplies :
         /\ calls' = Append(calls,
               Call("GetSchemaForGame", <<>>, appid, reply.status, 0, <<>>,
                    Len(reply.schema)))
         /\ IF RequestFails(reply.status)
            THEN Raise("ValueError") /\ UNCHANGED schema_achievements
            ELSE /\ schema_achievements' = reply.schema
                 /\ pc' = "candidates"
                 /\ err' = err
    /\ UNCHANGED <<achievements, candidates, chosen, result, out>>
    /\ AchUnchanged

(* lines 80-81: the modifier and the candidates *)
ComputeCandidates ==
    /\ pc = "candidates"
    /\ IF Len(achievements) = 0
       THEN Raise("IndexError") /\ candidates' = candidates
       ELSE IF ModifierRaises(achievements)
       THEN Raise("ZeroDivisionError") /\ candidates' = candidates
       ELSE /\ candidates' = Candidates(achievements, cutoff)
            /\ pc' = "enrich"
            /\ err' = err
    /\ UNCHANGED <<achievements, schema_achievements, chosen, result, calls,
                   out>>
    /\ AchUnchanged

(* lines 82-86: the enrichment *)
Enrich ==
    /\ pc = "enrich"
    /\ schema_achievements' = EnrichSchema(schema_achievements, achievements)
    /\ pc' = "listing"
    /\ UNCHANGED <<achievements, candidates, chosen, result, calls, out, err>>
    /\ AchUnchanged

(* lines 88-90: the sort, then one printed line per schema entry *)
PrintListing ==
    /\ pc = "listing"
    /\ IF SortRaises(schema_achievements)
       THEN Raise("KeyError") /\ out' = out
       ELSE /\ out' = out \o ListingLines(schema_achievements)
            /\ pc' = "choose"
            /\ err' = err
    /\ UNCHANGED <<achievements, schema_achievements, candidates, chosen,
                   result, calls>>
    /\ AchUnchanged

(* lines 92-97: the random choice and the look-up of its display name *)
ChooseAchievement ==
    /\ pc = "choose"
    /\ IF ChoiceRaises(candidates)
       THEN Raise("IndexError") /\ UNCHANGED <<chosen, result>>
       ELSE /\ \E c \in Range(candidates) :
                 /\ chosen' = <<c>>
                 /\ ReturnAchievement(
                       Str(FoundDisplayName(schema_achievements, c.name)))
            /\ err' = err
    /\ UNCHANGED <<achievements, schema_achievements, candidates, calls, out>>
    /\ AchUnchanged

(* main, line 121: get_random_achievement has returned (its locals are     *)
(* gone) and the challenge is printed                                      *)
MainPrintChallenge ==
    /\ pc = "print_challenge"
    /\ out' = Append(out, Line("Challenge achievement", result.val,
                               IF result.kind = "None" THEN 0 ELSE 1))
    /\ pc' = "done"
    /\ achievements' = <<>>
    /\ schema_achievements' = <<>>
    /\ candidates' = <<>>
    /\ chosen' = <<>>
    /\ UNCHANGED <<result, calls, err>>
    /\ AchUnchanged

Next ==
    \/ MainReadKey
    \/ ParseIdInput
    \/ PickRandomGame
    \/ MainPrintGame
    \/ GetAchievementStats
    \/ GetSchema
    \/ ComputeCandidates
    \/ Enrich
    \/ PrintListing
    \/ ChooseAchievement
    \/ MainPrintChallenge

Spec == Init /\ [][Next]_vars

---------------------------------------------------------------------------
(* Vocabulary of the properties. *)
EP_Vanity == "ResolveVanityURL"
EP_Games == "GetOwnedGames"
EP_Stats == "GetGlobalAchievementPercentagesForApp"
EP_Schema == "GetSchemaForGame"

Called(ep) == \E i \in DOMAIN calls : calls[i].endpoint = ep
Received(ep) ==
    \E i \in DOMAIN calls : calls[i].endpoint = ep /\ calls[i].status = 200

(* parse_id_input has acted on user_id *)
Resolved ==
    /\ entry \in {"main", "parse_id_input"}
    /\ pc \notin {"main", "parse_id"}
    /\ err # "OSError"

ContainsId(s) == \E i \in 1..Len(s) : LitAt(s, i, S_id)
FirstId(s) ==
    CHOOSE i \in 1..Len(s) :
        LitAt(s, i, S_id) /\ \A j \in 1..(i - 1) : ~LitAt(s, j, S_id)
AfterFirstId(s) == SubSeq(s, FirstId(s) + 3, Len(s))
HasNewline(s) == \E i \in 1..Len(s) : s[i] = NL
OnlyDigits(s) == \A i \in 1..Len(s) : s[i] \in Digits
EndsInProfilesId(s) ==
    /\ Len(s) >= 26
    /\ SubSeq(s, Len(s) - 25, Len(s) - 17) = S_profiles
    /\ OnlyDigits(SubSeq(s, Len(s) - 16, Len(s)))

(* the value parse_id_input handed back, where it is still visible *)
ResolverReturned(id) ==
    /\ pc = "owned_games" => steam_id = id
    /\ entry = "parse_id_input" /\ pc = "done" => result = Str(id)

(* pick_random_game got the owned games and has filtered and chosen *)
AfterPick ==
    /\ Len(calls) > 0
    /\ calls[Len(calls)].endpoint = EP_Games
    /\ calls[Len(calls)].status = 200
    /\ pc \in {"print_game", "crashed"}

EmptyCandidateSet ==
    \/ Len(owned_games) = 0
    \/ /\ ~all_games
       /\ \A i \in DOMAIN owned_games :
            owned_games[i].playtime_forever > time_played

\* C1: pick_random_game over an empty candidate set (no owned games, or
\* all_games false and no owned game with playtime_forever <= time_played)
\* fails with a dedicated EmptySelectionError.
C1_EmptySelectionError ==
    (AfterPick /\ EmptyCandidateSet) => err = "EmptySelectionError"

\* C2: a game returned by pick_random_game is one of the fetched owned
\* games, and with all_games false its playtime_forever is at most
\* time_played; with all_games true the choice is made among all the
\* owned games.
C2_PickedGameSelectable ==
    pc = "print_game" =>
        /\ \E i \in DOMAIN owned_games : owned_games[i] = game
        /\ ~all_games => game.playtime_forever <= time_played
        /\ all_games => selectable_games = owned_games

C2_Witness ==
    /\ pc = "print_game"
    /\ ~all_games
    /\ time_played = 1
    /\ game.playtime_forever = 1
    /\ \E i \in DOMAIN owned_games : owned_games[i].playtime_forever = 2

\* C3 as stated: for every input that contains "id/", the vanity lookup is
\* invoked with the text after "id/" up to the end of the string, and its
\* result is returned.
C3_VanityFromAnyIdInput ==
    (Resolved /\ ContainsId(user_id)) =>
        /\ Len(calls) >= 1
        /\ calls[1].endpoint = EP_Vanity
        /\ calls[1].arg = AfterFirstId(user_id)
        /\ ResolverReturned(calls[1].steamid)

\* C3 amended: for every input that contains "id/", contains no newline and
\* does not end in "profiles/" and 17 digits, the vanity lookup is invoked
\* with the text after the first "id/" up to the end of the string, and its
\* result is returned when the lookup succeeds.
C3_VanityFromIdInput ==
    (/\ Resolved
     /\ ContainsId(user_id)
     /\ ~HasNewline(user_id)
     /\ ~EndsInProfilesId(user_id)) =>
        /\ Len(calls) >= 1
        /\ calls[1].endpoint = EP_Vanity
        /\ calls[1].arg = AfterFirstId(user_id)
        /\ ResolverReturned(calls[1].steamid)

C3_Witness ==
    /\ entry = "parse_id_input"
    /\ pc = "done"
    /\ user_id = S_id \o <<"b", "/">> \o S_id \o <<"b">>
    /\ calls[1].arg = <<"b", "/">> \o S_id \o <<"b">>
    /\ result = Str(ResolvedId)

\* C4: an input of exactly 17 ASCII digits is returned unchanged and no
\* vanity lookup is issued.
C4_CanonicalUnchanged ==
    (Resolved /\ Len(user_id) = 17 /\ OnlyDigits(user_id)) =>
        /\ ~Called(EP_Vanity)
        /\ err = "none" \/ Called(EP_Games)
        /\ ResolverReturned(user_id)
        /\ entry = "parse_id_input" => pc = "done" /\ calls = <<>>

C4_Witness ==
    /\ entry = "parse_id_input"
    /\ pc = "done"
    /\ user_id = D17b
    /\ result = Str(D17b)
    /\ calls = <<>>

\* C5: an input that ends in "profiles/" and exactly 17 digits yields those
\* 17 digits and no vanity lookup, also when "id/" occurs earlier in it.
C5_ProfilesGroup ==
    (Resolved /\ EndsInProfilesId(user_id)) =>
        /\ ~Called(EP_Vanity)
        /\ err = "none" \/ Called(EP_Games)
        /\ ResolverReturned(SubSeq(user_id, Len(user_id) - 16, Len(user_id)))
        /\ entry = "parse_id_input" => pc = "done" /\ calls = <<>>

C5_Witness ==
    /\ entry = "parse_id_input"
    /\ pc = "done"
    /\ user_id = S_id \o <<"b", "/">> \o S_profiles \o D17b
    /\ result = Str(D17b)
    /\ calls = <<>>

\* C6: when the fetched percentages list is empty, get_random_achievement
\* returns None and the schema endpoint is never called; the schema
\* endpoint is called only after a non-empty percentages list was received.
C6_EmptyStatsNoSchema ==
    /\ (\E i \in DOMAIN calls : /\ calls[i].endpoint = EP_Stats
                                /\ calls[i].status = 200
                                /\ calls[i].count = 0) =>
         /\ ~Called(EP_Schema)
         /\ result = None
         /\ err = "none"
         /\ pc \in {"print_challenge", "done"}
    /\ \A i \in DOMAIN calls :
         calls[i].endpoint = EP_Schema =>
            \E j \in 1..(i - 1) : /\ calls[j].endpoint = EP_Stats
                                  /\ calls[j].status = 200
                                  /\ calls[j].count > 0

C6_Witness ==
    /\ entry = "main"
    /\ pc = "done"
    /\ result = None
    /\ Len(calls) >= 2
    /\ calls[Len(calls)].endpoint = EP_Stats
    /\ calls[Len(calls)].count = 0
    /\ out[Len(out)] = Line("Challenge achievement", <<>>, 0)

(* the candidates have been computed and are still visible *)
CandidatesComputed ==
    /\ Received(EP_Schema)
    /\ Len(achievements) > 0
    /\ achievements[1].percent > 0
    /\ pc \notin {"stats", "schema", "candidates"}

\* C7: for a non-empty percentages list whose first percent is positive,
\* the candidates are exactly the stats with
\* percent * (100 / first percent) >= cutoff, the stat chosen at random is
\* one of them, and for [A:50, B:10] with cutoff 80 only A is a candidate.
C7_Candidates ==
    CandidatesComputed =>
        /\ candidates =
             SelectSeq(achievements,
                LAMBDA st : 100 * st.percent >= cutoff * achievements[1].percent)
        /\ chosen # <<>> => \E i \in DOMAIN candidates : candidates[i] = chosen[1]
        /\ (/\ achievements = << [name |-> "A", percent |-> 50],
                                 [name |-> "B", percent |-> 10] >>
            /\ cutoff = 80) =>
               candidates = << [name |-> "A", percent |-> 50] >>

C7_Witness ==
    /\ CandidatesComputed
    /\ achievements = << [name |-> "A", percent |-> 50],
                         [name |-> "B", percent |-> 10] >>
    /\ cutoff = 80
    /\ candidates = << [name |-> "A", percent |-> 50] >>
    /\ chosen = << [name |-> "A", percent |-> 50] >>

\* C8: the enrichment changes only the percent of schema entries: the stats
\* and every schema entry's name and displayName stay as they are, an entry
\* with a same-named stat gets the percent of the first such stat, and an
\* entry with none keeps its percent unset.
C8_EnrichmentFrame ==
    [][pc = "enrich" =>
        /\ achievements' = achievements
        /\ UNCHANGED <<candidates, chosen, result, calls, out, err, game,
                       cutoff, appid>>
        /\ DOMAIN schema_achievements' = DOMAIN schema_achievements
        /\ \A k \in DOMAIN schema_achievements :
             LET before == schema_achievements[k]
                 after == schema_achievements'[k]
                 same == {i \in DOMAIN achievements :
                             achievements[i].name = before.name}
             IN  /\ after.name = before.name
                 /\ after.displayName = before.displayName
                 /\ same = {} => after.percent = Unset
                 /\ same # {} =>
                      \E i \in same : /\ \A j \in same : i <= j
                                      /\ after.percent = achievements[i].percent
    ]_vars

C8_Witness ==
    /\ pc = "listing"
    /\ achievements = << [name |-> "A", percent |-> 50],
                         [name |-> "A", percent |-> 40] >>
    /\ schema_achievements =
         << [name |-> "C", displayName |-> <<"C">>, percent |-> Unset],
            [name |-> "A", displayName |-> <<"A">>, percent |-> 50] >>

Rank(ep) ==
    IF ep = EP_Vanity THEN 1
    ELSE IF ep = EP_Games THEN 2
    ELSE IF ep = EP_Stats THEN 3
    ELSE 4

CallFailed(c) ==
    \/ c.status # 200
    \/ c.endpoint = EP_Vanity /\ c.success # 1

C9_Order ==
    /\ \A i, j \in DOMAIN calls :
         i < j => Rank(calls[i].endpoint) < Rank(calls[j].endpoint)
    /\ Called(EP_Vanity) =>
         ~(Len(user_id) = 17 /\ OnlyDigits(user_id)) /\ ~EndsInProfilesId(user_id)
    /\ \A i \in DOMAIN calls :
         CallFailed(calls[i]) =>
            i = Len(calls) /\ err = "ValueError" /\ pc = "crashed"
    /\ err # "none" => pc = "crashed"

\* C9: the API calls are issued in the order vanity resolution (only if
\* needed), owned games, percentages, schema, each at most once; a call
\* with a non-200 status, or a vanity lookup with success # 1, raises an
\* error that is never caught: it is the last call, nothing is printed by
\* the failing step and no step follows it.
C9_FailFast ==
    /\ []C9_Order
    /\ [][err = "none" /\ (err' # "none" => out' = out)]_vars

C9_Witness ==
    /\ entry = "main"
    /\ pc = "crashed"
    /\ err = "ValueError"
    /\ Len(calls) = 4
    /\ calls[1].endpoint = EP_Vanity
    /\ calls[4].status = 500
    /\ Len(out) = 2

(* the lines of the achievement listing printed so far *)
Listing == SelectSeq(out, LAMBDA l : l.line = "listing")

\* C10: whenever the percentages list is non-empty (and the modifier can be
\* computed), get_random_achievement prints, before it chooses, a listing
\* with every schema achievement exactly once in non-increasing order of
\* percent, for every schema, also one with an entry that matches no stat.
C10_ListingOfEverySchema ==
    (/\ CandidatesComputed
     /\ pc \in {"choose", "print_challenge", "done", "crashed"}) =>
        /\ Len(Listing) = Len(schema_achievements)
        /\ \A i \in 1..(Len(Listing) - 1) : Listing[i].num >= Listing[i + 1].num
        /\ \E f \in [DOMAIN Listing -> DOMAIN Listing] :
             /\ \A i, j \in DOMAIN Listing : f[i] = f[j] => i = j
             /\ \A i \in DOMAIN Listing :
                  /\ Listing[i].num = schema_achievements[f[i]].percent
                  /\ Listing[i].text =
                       AsciiReplace(schema_achievements[f[i]].displayName)

====
